---- MODULE Spec2Model ----
(***************************************************************************)
(* kalerator: src/kalerator/keyboard.py, class Keyboard(dict).             *)
(*                                                                         *)
(* A Python string is modelled as a sequence of one-character strings      *)
(* ('A2' is <<"A", "2">>, '' is <<>>), so that split, upper, isdigit, "+"  *)
(* and str(i) are computed as the code computes them.  A value that may be *)
(* None is a sequence of length 0 (None) or 1 (the value).                 *)
(* The code is Python 2: range() returns a list, which column_scr pops.    *)
(***************************************************************************)
EXTENDS Integers, Sequences, FiniteSets, TLC

\* ------------------------------------------------------------------ bounds
MaxRows == 2
MaxRowLen == 2
MaxKeys == 4
MaxCalls == 2

\* ----------------------------------------------------------------- strings
None == <<>>
Some(x) == <<x>>

NL == "\n"
Digits == {"0", "1", "2", "3", "4", "5", "6", "7", "8", "9"}
DigitChars == <<"0", "1", "2", "3", "4", "5", "6", "7", "8", "9">>
LowerChars == <<"a", "b", "c", "d", "e", "f", "g", "h", "i", "j", "k", "l", "m", "n", "o", "p", "q", "r", "s", "t", "u", "v", "w", "x", "y", "z">>
UpperChars == <<"A", "B", "C", "D", "E", "F", "G", "H", "I", "J", "K", "L", "M", "N", "O", "P", "Q", "R", "S", "T", "U", "V", "W", "X", "Y", "Z">>

\* str.upper() on one character
UpperChar(c) ==
  IF \E i \in 1..Len(LowerChars) : LowerChars[i] = c
  THEN UpperChars[CHOOSE i \in 1..Len(LowerChars) : LowerChars[i] = c]
  ELSE c

\* str.upper()
Upper(s) == [i \in 1..Len(s) |-> UpperChar(s[i])]

\* label.split('\n', 1)[0]: the text before the first newline
FirstLine(s) ==
  IF \E i \in 1..Len(s) : s[i] = NL
  THEN LET n == CHOOSE i \in 1..Len(s) : s[i] = NL /\ \A j \in 1..(i - 1) : s[j] # NL
       IN SubSeq(s, 1, n - 1)
  ELSE s

\* str.isdigit(): non-empty and every character a digit
IsDigit(s) == Len(s) > 0 /\ \A i \in 1..Len(s) : s[i] \in Digits

\* str(i) for i >= 0
RECURSIVE Str(_)
Str(i) == IF i < 10 THEN <<DigitChars[i + 1]>> ELSE Str(i \div 10) \o <<DigitChars[(i % 10) + 1]>>

\* s.startswith(p)
StartsWith(s, p) == Len(s) >= Len(p) /\ SubSeq(s, 1, Len(p)) = p

KP_ == <<"K", "P", "_">>
KP_ASTERISK == <<"K", "P", "_", "A", "S", "T", "E", "R", "I", "S", "K">>

\* the module-level table key_translation, as a set of <<key, value>> pairs;
\* the non-ASCII keys are written as one character named by its code point
key_translation ==
  { << <<>>, <<"S", "P", "A", "C", "E">> >>,
    << <<"u2190">>, <<"L", "E", "F", "T">> >>,
    << <<"u2191">>, <<"U", "P">> >>,
    << <<"u2192">>, <<"R", "I", "G", "H", "T">> >>,
    << <<"u2193">>, <<"D", "O", "W", "N">> >>,
    << <<"~">>, <<"G", "R", "A", "V", "E">> >>,
    << <<"u00ac">>, <<"G", "R", "A", "V", "E">> >>,
    << <<"!">>, <<"1">> >>,
    << <<"@">>, <<"2">> >>,
    << <<"#">>, <<"3">> >>,
    << <<"u00a3">>, <<"3">> >>,
    << <<"$">>, <<"4">> >>,
    << <<"%">>, <<"5">> >>,
    << <<"^">>, <<"6">> >>,
    << <<"&">>, <<"7">> >>,
    << <<"*">>, <<"8">> >>,
    << <<"(">>, <<"9">> >>,
    << <<")">>, <<"0">> >>,
    << <<"_">>, <<"D", "A", "S", "H">> >>,
    << <<"+">>, <<"E", "Q", "U", "A", "L">> >>,
    << <<"{">>, <<"L", "B", "R", "A", "C", "K", "E", "T">> >>,
    << <<"}">>, <<"R", "B", "R", "A", "C", "K", "E", "T">> >>,
    << <<"|">>, <<"B", "A", "C", "K", "S", "L", "A", "S", "H">> >>,
    << <<":">>, <<"S", "E", "M", "I", "C", "O", "L", "O", "N">> >>,
    << <<"\"">>, <<"Q", "U", "O", "T", "E">> >>,
    << <<"<">>, <<"C", "O", "M", "M", "A">> >>,
    << <<">">>, <<"P", "E", "R", "I", "O", "D">> >>,
    << <<"?">>, <<"S", "L", "A", "S", "H">> >>,
    << <<"/">>, <<"K", "P", "_", "S", "L", "A", "S", "H">> >>,
    << <<"-">>, <<"K", "P", "_", "D", "A", "S", "H">> >>,
    << <<".">>, <<"K", "P", "_", "D", "E", "L">> >> }

\* key_name in key_translation
InTranslation(k) == \E p \in key_translation : p[1] = k

\* key_translation[key_name]
Translation(k) == (CHOOSE p \in key_translation : p[1] = k)[2]

\* ---------------------------------------------------------- translate_label
\* translate_label without the split: the whole label is uppercased and looked up
WholeLabelName(label) == IF label = <<"*">> THEN KP_ASTERISK ELSE Upper(label)

\* lines 124-126: the first line, uppercased; the whole label '*' is KP_ASTERISK
FirstLineName(label) == IF label = <<"*">> THEN KP_ASTERISK ELSE Upper(FirstLine(label))

\* lines 124-129: the name before collision resolution
Candidate(label) ==
  LET key_name == FirstLineName(label)
  IN IF InTranslation(key_name) THEN Translation(key_name) ELSE key_name

\* translate_label without the while loop: the first name tried is returned
ProbeOnce(key_name, new_key_name, i, names) == new_key_name

\* lines 137-139: while new_key_name in self: new_key_name = key_name + str(i); i += 1
RECURSIVE Probe(_, _, _, _)
Probe(key_name, new_key_name, i, names) ==
  IF new_key_name \in names
  THEN Probe(key_name, key_name \o Str(i), i + 1, names)
  ELSE new_key_name

\* translate_label without the isdigit branch: every collision gets a numeric suffix
RenameBySuffix(key_name, names) == Probe(key_name, key_name \o Str(2), 2, names)

\* lines 131-141: the renaming of a name that is already in the keyboard
Rename(key_name, names) ==
  IF IsDigit(key_name)
  THEN Probe(KP_ \o key_name, KP_ \o key_name, 2, names)
  ELSE Probe(key_name, key_name \o Str(2), 2, names)

\* translate_label(label) against a keyboard holding the key names `names`
translate_label(label, names) ==
  LET key_name == Candidate(label)
  IN IF key_name \in names THEN Rename(key_name, names) ELSE key_name

\* ------------------------------------------------------------------- state
VARIABLES
  pc,                     \* "new": __init__ has set the fields (lines 52-87); "ready": parse_json has run
  layout,                 \* self.layout: the decoded grid, rows of raw labels (key['name'])
  eagle_version,          \* self.eagle_version
  self,                   \* the dict the Keyboard is: key name -> KeyboardKey
  rows,                   \* self.rows: rows of key names
  max_col,                \* self.max_col
  _board_scr,             \* the cached script fragments
  _column_board_scr,
  _column_schematic_scr,
  _key_board_scr,
  _key_schematic_scr,
  _schematic_scr,
  outcome,                \* how the last operation ended: "ok" or the exception it raised
  column_scr_calls,       \* history: how many times column_scr() has been entered
  col,                    \* history: the trace of the last column_scr() run
  iterated,               \* history: what the last iteration over the Keyboard yielded
  rows0                   \* history: self.rows as parse_json left it

vars == <<pc, layout, eagle_version, self, rows, max_col, _board_scr, _column_board_scr, _column_schematic_scr, _key_board_scr, _key_schematic_scr, _schematic_scr, outcome, column_scr_calls, col, iterated, rows0>>

\* ------------------------------------------------------------ sequence help
\* the keys of all rows, row after row
RECURSIVE Flatten(_)
Flatten(rs) == IF Len(rs) = 0 THEN <<>> ELSE Head(rs) \o Flatten(Tail(rs))

\* the length of the longest row
RECURSIVE MaxLen(_)
MaxLen(rs) ==
  IF Len(rs) = 0 THEN 0
  ELSE LET m == MaxLen(Tail(rs)) IN IF Len(Head(rs)) > m THEN Len(Head(rs)) ELSE m

\* the elements of a sequence
Range(s) == {s[i] : i \in 1..Len(s)}

\* no element of the sequence occurs twice in it
NoDuplicates(s) == \A i, j \in 1..Len(s) : i # j => s[i] # s[j]

\* sep.join(parts)
RECURSIVE Join(_, _)
Join(sep, parts) ==
  IF Len(parts) = 0 THEN <<>>
  ELSE IF Len(parts) = 1 THEN parts[1]
  ELSE parts[1] \o sep \o Join(sep, Tail(parts))

\* `if not x` for a string or a list
Falsy(x) == Len(x) = 0

\* ----------------------------------------------------------------- inputs
\* plain labels that translate to themselves
Labels == {<<"Q">>, <<"W">>, <<"A">>, <<"S">>}

\* labels that collide: a repeated letter, the name a repeated 'A' is given, a digit,
\* the shifted symbol of that digit with the digit as its second legend, the asterisk
ParseLabels == {<<"A">>, <<"A", "2">>, <<"5">>, <<"%", NL, "5">>, <<"*">>}

\* eagle_version: 'free' makes column_scr translate the board coordinates (line 254)
EagleVersions == {"free", "pro"}

\* the row lengths of an input grid: at most MaxRows rows of at most MaxRowLen keys
Shapes == UNION {[1..n -> 0..MaxRowLen] : n \in 0..MaxRows}

\* the number of keys in a grid of the given row lengths
RECURSIVE Total(_)
Total(lens) == IF Len(lens) = 0 THEN 0 ELSE Head(lens) + Total(Tail(lens))

\* the grid of row lengths `lens` whose labels, row after row, are `flat`
Grid(lens, flat) ==
  [r \in 1..Len(lens) |-> SubSeq(flat, Total(SubSeq(lens, 1, r - 1)) + 1, Total(SubSeq(lens, 1, r)))]

\* --------------------------------------------------------------- parse_json
\* KeyboardKey(key_name, last_key, ...): the name and the key placed before it
KeyboardKey(key_name, last_key) == [name |-> key_name, last_key |-> last_key]

\* self[key_name] = key
DictSet(d, k, v) == [n \in DOMAIN d \cup {k} |-> IF n = k THEN v ELSE d[n]]

\* lines 297-309: the body of `for key in row`
ParseKey(st, label) ==
  LET key_name == translate_label(label, DOMAIN st.self)
      nrows == Len(st.rows)
  IN [st EXCEPT !.self = DictSet(st.self, key_name, KeyboardKey(key_name, st.last_key)),
                !.last_key = Some(key_name),
                !.rows = [st.rows EXCEPT ![nrows] = Append(@, key_name)],
                !.max_col = IF st.col_num > st.max_col THEN st.col_num ELSE st.max_col]

RECURSIVE ParseKeys(_, _)
ParseKeys(st, row) ==
  IF Len(row) = 0 THEN st ELSE ParseKeys(ParseKey(st, Head(row)), Tail(row))

\* lines 294-311: the body of `for row in self.layout`
ParseRow(st, row) ==
  LET st1 == [st EXCEPT !.rows = Append(@, <<>>)]
      st2 == ParseKeys(st1, row)
  IN [st2 EXCEPT !.col_num = 0]

RECURSIVE ParseRows(_, _)
ParseRows(st, grid) ==
  IF Len(grid) = 0 THEN st ELSE ParseRows(ParseRow(st, Head(grid)), Tail(grid))

\* parse_json() on the fields __init__ has set
parse_json(grid, d, rs, mc) ==
  ParseRows([self |-> d, rows |-> rs, max_col |-> mc, last_key |-> None, col_num |-> 0], grid)

\* --------------------------------------------------------------- column_scr
\* the traversal state of one column_scr() run: its locals, and the history of what
\* it popped (popped), which slot each popped key went to (assigned), which slot each
\* traversal index claimed (claims), and how often the pool was popped when empty
ColStart(rs, mc) ==
  [rows |-> rs,
   row_positions |-> [i \in 1..mc |-> i],
   schematic_columns |-> [s \in {} |-> <<>>],
   board_columns |-> [s \in {} |-> <<>>],
   key |-> None, last_key |-> None, row_position |-> None,
   raised |-> None,
   popped |-> <<>>, assigned |-> <<>>, claims |-> <<>>, empty_pool_pops |-> 0]

\* lines 213-237: a truthy last_key is a key name, a str, and has no attribute
\* column_pin_scr: line 215 raises AttributeError before any NET is appended
NetOrRaise(st) ==
  IF st.last_key # None /\ ~Falsy(st.last_key[1])
  THEN [st EXCEPT !.raised = Some("AttributeError")]
  ELSE st

\* lines 209-239: what follows a pop that claimed or kept a slot
AfterPop(st, column, r) ==
  LET p == st.row_position[1]
      st1 == IF p \in DOMAIN st.schematic_columns
             THEN st
             ELSE [st EXCEPT !.schematic_columns = [s \in DOMAIN @ \cup {p} |-> IF s = p THEN <<>> ELSE @[s]],
                             !.board_columns = [s \in DOMAIN @ \cup {p} |-> IF s = p THEN <<>> ELSE @[s]]]
      st2 == [st1 EXCEPT !.assigned = Append(@, [column |-> column, row |-> r, key |-> st.key[1], slot |-> p])]
      st3 == NetOrRaise(st2)
  IN IF st3.raised # None THEN st3 ELSE [st3 EXCEPT !.last_key = st3.key]

\* lines 199-200, 203-204: `if not row_position: row_position = row_positions.pop(..)`;
\* a pop of the empty pool raises IndexError, which line 205 catches
ClaimSlot(st, column, r) ==
  IF st.row_position # None /\ st.row_position[1] # 0
  THEN AfterPop(st, column, r)
  ELSE IF Len(st.row_positions) = 0
  THEN [st EXCEPT !.last_key = st.key, !.empty_pool_pops = @ + 1]
  ELSE LET n == Len(st.row_positions)
           p == IF column % 2 = 0 THEN st.row_positions[1] ELSE st.row_positions[n]
           rest == IF column % 2 = 0 THEN Tail(st.row_positions) ELSE SubSeq(st.row_positions, 1, n - 1)
       IN AfterPop([st EXCEPT !.row_position = Some(p), !.row_positions = rest,
                              !.claims = Append(@, [column |-> column, slot |-> p])], column, r)

\* lines 193-239: the body of `for row in rows` for the r-th row
RowStep(st, column, r) ==
  LET row == st.rows[r]
      n == Len(row)
  IN IF n = 0
     THEN [st EXCEPT !.last_key = st.key]
     ELSE LET key == IF column % 2 = 0 THEN row[1] ELSE row[n]
              rest == IF column % 2 = 0 THEN Tail(row) ELSE SubSeq(row, 1, n - 1)
          IN ClaimSlot([st EXCEPT !.rows[r] = rest, !.key = Some(key),
                                  !.popped = Append(@, [column |-> column, row |-> r, key |-> key])], column, r)

RECURSIVE RowLoop(_, _, _)
RowLoop(st, column, r) ==
  IF r > Len(st.rows) \/ st.raised # None THEN st
  ELSE RowLoop(RowStep(st, column, r), column, r + 1)

\* lines 189-239: `for column in range(1, self.max_col + 1)`
RECURSIVE ColumnLoop(_, _, _)
ColumnLoop(st, column, mc) ==
  IF column > mc \/ st.raised # None THEN st
  ELSE ColumnLoop(RowLoop([st EXCEPT !.key = None, !.last_key = None, !.row_position = None], column, 1),
                  column + 1, mc)

\* sorted(d): the keys of a dict in ascending order
RECURSIVE Sorted(_)
Sorted(S) ==
  IF S = {} THEN <<>>
  ELSE LET m == CHOOSE x \in S : \A y \in S : x <= y IN <<m>> \o Sorted(S \ {m})

\* text % {'column': column}: the placeholder replaced by str(column)
RECURSIVE Format(_, _)
Format(text, column) ==
  IF Len(text) = 0 THEN <<>>
  ELSE (IF Head(text) = "%(column)s" THEN Str(column) ELSE <<Head(text)>>) \o Format(Tail(text), column)

\* lines 243-249: one string per claimed slot, in ascending slot order
SlotTexts(columns) ==
  LET order == Sorted(DOMAIN columns)
  IN [i \in 1..Len(order) |-> Format(Join(<<NL>>, columns[order[i]]), order[i])]

\* translate_board_coords(text): rewrites the coordinates of a board script and
\* leaves its line structure alone
translate_board_coords(text) ==
  [i \in 1..Len(text) |-> IF text[i] = NL THEN NL ELSE "translated"]

\* column_scr without the deepcopy: the traversal pops from self.rows itself
deepcopy_aliases(canonical, working) == working

\* line 181: the traversal pops from a deep copy, so what it leaves of its rows
\* never reaches self.rows
deepcopy_keeps(canonical, working) == canonical

\* --------------------------------------------------- the fields and methods
\* the fields the script methods read and write, with the history they leave
Fields ==
  [_board_scr |-> _board_scr, _column_board_scr |-> _column_board_scr,
   _column_schematic_scr |-> _column_schematic_scr, _key_board_scr |-> _key_board_scr,
   _key_schematic_scr |-> _key_schematic_scr, _schematic_scr |-> _schematic_scr,
   rows |-> rows, raised |-> None, calls |-> column_scr_calls, col |-> col]

\* column_scr(), lines 178-256
column_scr(f) ==
  LET st == ColumnLoop(ColStart(f.rows, max_col), 1, max_col)
      trace == [called |-> TRUE, raised |-> st.raised, rows |-> st.rows,
                schematic_columns |-> st.schematic_columns,
                popped |-> st.popped, assigned |-> st.assigned, claims |-> st.claims,
                empty_pool_pops |-> st.empty_pool_pops]
      f1 == [f EXCEPT !.calls = @ + 1, !.col = trace, !.raised = st.raised,
                      !.rows = deepcopy_keeps(f.rows, st.rows)]
      board == Join(<<NL>>, SlotTexts(st.board_columns))
  IN IF st.raised # None THEN f1
     ELSE [f1 EXCEPT !._column_schematic_scr = Join(<<NL>>, SlotTexts(st.schematic_columns)),
                     !._column_board_scr = IF eagle_version = "free" THEN translate_board_coords(board) ELSE board]

\* the property column_schematic_scr, lines 164-169
column_schematic_scr(f) == IF Falsy(f._column_schematic_scr) THEN column_scr(f) ELSE f

\* the property column_board_scr, lines 171-176
column_board_scr(f) == IF Falsy(f._column_board_scr) THEN column_scr(f) ELSE f

\* __iter__, lines 90-95: self[key] for every name of every row, in order
Iter(rs) == LET names == Flatten(rs) IN [i \in 1..Len(names) |-> self[names[i]]]

\* key.schematic_scr and key.board_scr of KeyboardKey: a non-empty fragment per key
KeyScr(kind, key) == <<kind>> \o key.name

\* the property key_board_scr, lines 145-152
key_board_scr(f) ==
  IF Falsy(f._key_board_scr)
  THEN LET ks == Iter(f.rows)
       IN [f EXCEPT !._key_board_scr = Join(<<NL>>, [i \in 1..Len(ks) |-> KeyScr("board_scr ", ks[i])])]
  ELSE f

\* the property key_schematic_scr, lines 154-162: the cache is the list of fragments
key_schematic_scr(f) ==
  IF Falsy(f._key_schematic_scr)
  THEN LET ks == Iter(f.rows)
       IN [f EXCEPT !._key_schematic_scr = [i \in 1..Len(ks) |-> KeyScr("schematic_scr ", ks[i])]]
  ELSE f

schematic_preamble == Join(<<NL>>, << <<"GRID ON;">>, <<"GRID IN 0.1 1;">>, <<"GRID ALT IN 0.01;">>, <<"SET WIRE_BEND 2;">>, <<>>, <<>> >>)
schematic_footer == <<NL, NL, "WINDOW FIT;">>
board_preamble == Join(<<NL>>, << <<"GRID ON;">>, <<"GRID MM 1 10;">>, <<"GRID ALT MM .1;">>, <<>>, <<>> >>)
board_footer == <<NL, NL, "RATSNEST;", NL, "WINDOW FIT;">>

\* the property schematic_scr, lines 109-119; the tuple is evaluated left to right
schematic_scr(f) ==
  IF Falsy(f._schematic_scr)
  THEN LET f1 == key_schematic_scr(f)
           f2 == column_schematic_scr(f1)
       IN IF f2.raised # None THEN f2
          ELSE [f2 EXCEPT !._schematic_scr = Join(<<NL>>, <<schematic_preamble, Join(<<NL>>, f2._key_schematic_scr),
                                                            f2._column_schematic_scr, schematic_footer>>)]
  ELSE f

\* the property board_scr, lines 97-107
board_scr(f) ==
  IF Falsy(f._board_scr)
  THEN LET f1 == key_board_scr(f)
           f2 == column_board_scr(f1)
       IN IF f2.raised # None THEN f2
          ELSE [f2 EXCEPT !._board_scr = Join(<<NL>>, <<board_preamble, f2._key_board_scr,
                                                        f2._column_board_scr, board_footer>>)]
  ELSE f

\* generate(), lines 258-261: schematic_scr, then board_scr unless that raised
generate(f) == LET f1 == schematic_scr(f) IN IF f1.raised # None THEN f1 ELSE board_scr(f1)

\* ----------------------------------------------------------------- actions
NoTrace ==
  [called |-> FALSE, raised |-> None, rows |-> <<>>, schematic_columns |-> [s \in {} |-> <<>>],
   popped |-> <<>>, assigned |-> <<>>, claims |-> <<>>, empty_pool_pops |-> 0]

\* __init__, lines 51-87: the fields before parse_json() runs
NewKeyboard(grid, version) ==
  /\ pc = "new"
  /\ layout = grid
  /\ eagle_version = version
  /\ self = [n \in {} |-> None]
  /\ rows = <<>>
  /\ max_col = 0
  /\ _board_scr = <<>>
  /\ _column_board_scr = <<>>
  /\ _column_schematic_scr = <<>>
  /\ _key_board_scr = <<>>
  /\ _key_schematic_scr = <<>>
  /\ _schematic_scr = <<>>
  /\ outcome = "ok"
  /\ column_scr_calls = 0
  /\ col = NoTrace
  /\ iterated = [done |-> FALSE, keys |-> <<>>, after_column_scr |-> FALSE]
  /\ rows0 = <<>>

\* a Keyboard is given any grid of at most MaxKeys keys labelled from `labels`
InitOver(labels) ==
  \E lens \in Shapes :
    /\ Total(lens) <= MaxKeys
    /\ \E flat \in [1..Total(lens) -> labels], version \in EagleVersions :
         NewKeyboard(Grid(lens, flat), version)

Init == InitOver(Labels)

InitParse == InitOver(ParseLabels)

\* line 88: __init__ ends by running parse_json()
Construct ==
  /\ pc = "new"
  /\ \E st \in {parse_json(layout, self, rows, max_col)} :
        /\ self' = st.self
        /\ rows' = st.rows
        /\ max_col' = st.max_col
        /\ rows0' = st.rows
  /\ pc' = "ready"
  /\ outcome' = "ok"
  /\ UNCHANGED <<layout, eagle_version, _board_scr, _column_board_scr, _column_schematic_scr, _key_board_scr, _key_schematic_scr, _schematic_scr, column_scr_calls, col, iterated>>

\* a script method has run and left the fields f
Apply(f) ==
  /\ pc = "ready"
  /\ f.calls <= MaxCalls
  /\ _board_scr' = f._board_scr
  /\ _column_board_scr' = f._column_board_scr
  /\ _column_schematic_scr' = f._column_schematic_scr
  /\ _key_board_scr' = f._key_board_scr
  /\ _key_schematic_scr' = f._key_schematic_scr
  /\ _schematic_scr' = f._schematic_scr
  /\ rows' = f.rows
  /\ column_scr_calls' = f.calls
  /\ col' = f.col
  /\ outcome' = IF f.raised = None THEN "ok" ELSE f.raised[1]
  /\ UNCHANGED <<pc, layout, eagle_version, self, max_col, iterated, rows0>>

ColumnScr == \E f \in {column_scr(Fields)} : Apply(f)

ColumnSchematicScr == \E f \in {column_schematic_scr(Fields)} : Apply(f)

ColumnBoardScr == \E f \in {column_board_scr(Fields)} : Apply(f)

SchematicScr == \E f \in {schematic_scr(Fields)} : Apply(f)

BoardScr == \E f \in {board_scr(Fields)} : Apply(f)

Generate == \E f \in {generate(Fields)} : Apply(f)

\* for key in keyboard: the keys __iter__ yields
Iterate ==
  /\ pc = "ready"
  /\ iterated' = [done |-> TRUE, keys |-> Iter(rows), after_column_scr |-> col.called]
  /\ outcome' = "ok"
  /\ UNCHANGED <<pc, layout, eagle_version, self, rows, max_col, _board_scr, _column_board_scr, _column_schematic_scr, _key_board_scr, _key_schematic_scr, _schematic_scr, column_scr_calls, col, rows0>>

Methods == ColumnScr \/ ColumnSchematicScr \/ ColumnBoardScr \/ SchematicScr \/ BoardScr \/ Generate \/ Iterate

\* the program: a Keyboard is constructed from a grid, then used
Next == Construct \/ Methods

Spec == Init /\ [][Next]_vars

\* the constructor alone, on grids whose labels collide
NextParse == Construct

SpecParse == InitParse /\ [][NextParse]_vars

\* column_scr as a function of self.rows and self.max_col: a constructed Keyboard
\* of pairwise distinct plain labels whose attribute max_col holds any value from 0
\* to one past the longest row (parse_json itself always leaves 0 there)
InitCol ==
  \E lens \in Shapes :
    /\ Total(lens) <= MaxKeys
    /\ \E flat \in [1..Total(lens) -> Labels], version \in EagleVersions :
         \E st \in {parse_json(Grid(lens, flat), [n \in {} |-> None], <<>>, 0)} : \E mc \in 0..(MaxLen(st.rows) + 1) :
           /\ NoDuplicates(flat)
           /\ pc = "ready"
           /\ layout = Grid(lens, flat)
           /\ eagle_version = version
           /\ self = st.self
           /\ rows = st.rows
           /\ max_col = mc
           /\ _board_scr = <<>>
           /\ _column_board_scr = <<>>
           /\ _column_schematic_scr = <<>>
           /\ _key_board_scr = <<>>
           /\ _key_schematic_scr = <<>>
           /\ _schematic_scr = <<>>
           /\ outcome = "ok"
           /\ column_scr_calls = 0
           /\ col = NoTrace
           /\ iterated = [done |-> FALSE, keys |-> <<>>, after_column_scr |-> FALSE]
           /\ rows0 = st.rows

NextCol == Methods

SpecCol == InitCol /\ [][NextCol]_vars

\* ------------------------------------------------------------------ claims
\* parse_json calls translate_label once per key, in row-major order: the i-th call
\* is given the i-th label of the grid, returns the i-th name of the rows, and runs
\* against the names returned before it
ParsedLabels == Flatten(layout)
ParsedNames == Flatten(rows)
NamesBefore(i) == {ParsedNames[j] : j \in 1..(i - 1)}

\* C1: after construction, max_col equals the length of the longest row of rows
C1_MaxColIsLongestRow == pc = "ready" => max_col = MaxLen(rows)

\* C2: after parsing no key name appears twice across all rows, and the keyboard holds
\* as many keys as there are names in rows
C2_NamesUnique ==
  pc = "ready" => /\ NoDuplicates(ParsedNames)
                  /\ Cardinality(DOMAIN self) = Len(ParsedNames)
                  /\ DOMAIN self = Range(ParsedNames)

\* C2 witness: a grid with 'A', 'A' and then 'A2', the name the second 'A' was given
C2_Witness ==
  /\ pc = "ready"
  /\ \E i, j, k \in 1..Len(ParsedLabels) :
       /\ i < j /\ j < k
       /\ ParsedLabels[i] = <<"A">> /\ ParsedLabels[j] = <<"A">> /\ ParsedLabels[k] = <<"A", "2">>
       /\ ParsedNames[j] = <<"A", "2">> /\ ParsedNames[k] = <<"A", "2", "2">>

\* C3: the keyboard parsed from the grid Q,W / A,S gets exactly 2 column slots from
\* column_scr, each holding exactly 1 net-triplet
C3_TwoByTwoColumns ==
  (pc = "ready" /\ layout = << <<<<"Q">>, <<"W">>>>, <<<<"A">>, <<"S">>>> >> /\ col.called)
    => /\ col.raised = None
       /\ Cardinality(DOMAIN col.schematic_columns) = 2
       /\ \A s \in DOMAIN col.schematic_columns : Len(col.schematic_columns[s]) = 1

\* the keys column_scr assigned to slot s, and the nets it emitted for the slot
KeysInSlot(s) == Cardinality({i \in 1..Len(col.assigned) : col.assigned[i].slot = s})
NetsInSlot(s) == IF s \in DOMAIN col.schematic_columns THEN Len(col.schematic_columns[s]) ELSE 0

C5_NumericCollisionUsesKeypadPrefix ==
  pc = "ready" =>
    \A i \in 1..Len(ParsedLabels) :
      LET c == Candidate(ParsedLabels[i])
      IN (IsDigit(c) /\ c \in NamesBefore(i))
           => /\ StartsWith(ParsedNames[i], KP_ \o c)
              /\ (KP_ \o c) \notin NamesBefore(i) => ParsedNames[i] = KP_ \o c
              /\ ~IsDigit(ParsedNames[i])

\* C5 witness: the label '5' three times: '5', 'KP_5' and then 'KP_52'
C5_Witness ==
  /\ pc = "ready"
  /\ \E i, j, k \in 1..Len(ParsedLabels) :
       /\ i < j /\ j < k
       /\ ParsedLabels[i] = <<"5">> /\ ParsedLabels[j] = <<"5">> /\ ParsedLabels[k] = <<"5">>
       /\ ParsedNames[j] = <<"K", "P", "_", "5">> /\ ParsedNames[k] = <<"K", "P", "_", "5", "2">>

\* C6: constructing a Keyboard from a grid with no keys ends in an error, never in a
\* successfully built empty keyboard
C6_EmptyGridFails == (pc = "ready" /\ Len(ParsedLabels) = 0) => outcome # "ok"

\* C7: over any sequence of accesses to the script properties and generate(),
\* column_scr() runs at most once on one Keyboard
C7_ColumnScrRunsOnce == column_scr_calls <= 1

\* raw labels to compare a parsed label with: the grid's labels, the same first lines
\* with other legends below them, and the bare first lines
ProbeLabels ==
  ParseLabels \cup {<<"%">>, <<"%", NL, "6">>, <<"*", NL, "8">>, <<"5", NL, "%">>,
                    <<"A", NL, "B">>, <<"a">>, <<"a", NL, "2">>, <<"A", "2", NL>>}

\* C8 as stated: any label with the same first line as a parsed label, translated
\* against the same names, gets the name the parsed label got
C8_FirstLineDecides ==
  pc = "ready" =>
    \A i \in 1..Len(ParsedLabels) : \A other \in ProbeLabels :
      FirstLine(other) = FirstLine(ParsedLabels[i])
        => translate_label(other, NamesBefore(i)) = ParsedNames[i]

\* C8 amended: the same, for labels neither of which is exactly '*'
C8_FirstLineDecidesButAsterisk ==
  pc = "ready" =>
    \A i \in 1..Len(ParsedLabels) : \A other \in ProbeLabels :
      (FirstLine(other) = FirstLine(ParsedLabels[i]) /\ other # <<"*">> /\ ParsedLabels[i] # <<"*">>)
        => translate_label(other, NamesBefore(i)) = ParsedNames[i]

\* C8 witness: '%' over '5' is parsed after a '5' and renamed, as the bare '%' would be
C8_Witness ==
  /\ pc = "ready"
  /\ \E i \in 1..Len(ParsedLabels) :
       /\ ParsedLabels[i] = <<"%", NL, "5">>
       /\ ParsedNames[i] = <<"K", "P", "_", "5">>
       /\ translate_label(<<"%">>, NamesBefore(i)) = <<"K", "P", "_", "5">>

\* C9: column synthesis leaves self.rows as parsing left it, and iterating the
\* Keyboard yields every key exactly once in row-major order
C9_RowsUnchanged ==
  /\ rows = rows0
  /\ iterated.done =>
       /\ Len(iterated.keys) = Len(Flatten(rows0))
       /\ \A i \in 1..Len(iterated.keys) : iterated.keys[i].name = Flatten(rows0)[i]
       /\ NoDuplicates(iterated.keys)

\* C9 witness: the Keyboard is iterated after a traversal that popped keys
C9_Witness ==
  /\ col.called
  /\ Len(col.popped) >= 2
  /\ col.rows # rows0
  /\ iterated.done /\ iterated.after_column_scr
  /\ Len(iterated.keys) >= 2

====
